---- MODULE Spec2Model ----
(***************************************************************************)
(* Catalog persistence layer of mercari-build-training (go/app/infra.go): *)
(* the categories and items tables of the SQLite store, the image          *)
(* directory, and callers running GetOrCreate, Insert and AddItem          *)
(* concurrently, one database statement or file-system call per step.      *)
(***************************************************************************)
EXTENDS Integers, Sequences, FiniteSets, TLC

(* ------------------------------ bounds --------------------------------- *)

\* number of callers; each is a goroutine that makes one call, at any time
NumCallers == 2

\* rows of the items table in the stores the read operations are run on
MaxRows == 2

(* --------------------------- input domains ----------------------------- *)

Callers == 1..NumCallers

CategoryNames == {"phone", "fashion"}

\* "" is the empty item name of the rejected request
ItemNames == {"", "jacket"}

\* image contents, as byte sequences
Images == {<<1, 2>>, <<3>>}

\* item names a direct Insert is called with
InsertNames == {"jacket"}

\* category_id values a direct Insert is called with (3 is never assigned:
\* there are two category names)
CategoryIDs == {1, 3}

\* contents of a path no file exists at
NoFile == <<-1>>

(* ------------------------------ helpers -------------------------------- *)

Max(a, b) == IF a >= b THEN a ELSE b

\* rows of the categories table with the given name (SELECT ... WHERE name = ?)
RowsNamed(cats, name) == {i \in 1..Len(cats) : cats[i].name = name}

\* faulty variant: a lookup without its WHERE clause
SelectCategoryIDAnyMut(cats, name) == IF cats = <<>> THEN 0 ELSE cats[1].id

\* faulty variant: a lookup that never finds the row
SelectCategoryIDMut(cats, name) == 0

\* the id the lookup scans, 0 when the query yields sql.ErrNoRows
SelectCategoryID(cats, name) ==
    IF RowsNamed(cats, name) = {} THEN 0
    ELSE cats[CHOOSE i \in RowsNamed(cats, name) :
                  \A j \in RowsNamed(cats, name) : i <= j].id

\* faulty variant: a categories table without the UNIQUE constraint
UniqueNameMut(cats, name) == TRUE

\* UNIQUE constraint on categories.name: TRUE when the INSERT is accepted
UniqueName(cats, name) == RowsNamed(cats, name) = {}

\* faulty variant: a sequence that stops advancing after the first row
NextRowIDMut(seq) == IF seq = 0 THEN 1 ELSE seq

\* AUTOINCREMENT: the rowid given to the next row, from the table's sequence
NextRowID(seq) == seq + 1

\* content-addressed image name: a digest of the bytes
RECURSIVE Digest(_)
Digest(bytes) ==
    IF bytes = <<>> THEN 7
    ELSE (Digest(SubSeq(bytes, 1, Len(bytes) - 1)) * 31 + bytes[Len(bytes)]) % 251

ImageName(bytes) == Digest(bytes)

FileNames == {ImageName(b) : b \in Images}

\* faulty variant: a file opened with O_APPEND, written at its end
WriteAtMut(old, data, k) == old \o SubSeq(data, 1, k)

\* a file after k bytes of data were written at offset 0 over contents old
WriteAt(old, data, k) ==
    [i \in 1..Max(Len(old), k) |-> IF i <= k THEN data[i] ELSE old[i]]

\* the characters of the strings the model uses
Chars(str) ==
    CASE str = "" -> <<>>
      [] str = "jacket" -> <<"j", "a", "c", "k", "e", "t">>
      [] str = "iPhone" -> <<"i", "P", "h", "o", "n", "e">>
      [] str = "Phone" -> <<"P", "h", "o", "n", "e">>
      [] str = "phone" -> <<"p", "h", "o", "n", "e">>
      [] str = "_" -> <<"_">>

\* SQLite's LIKE compares ASCII letters without regard to case
Fold(c) == IF c = "P" THEN "p" ELSE c

\* text LIKE pattern: % matches any run of characters, _ any one character
RECURSIVE Like(_, _)
Like(pattern, text) ==
    IF pattern = <<>> THEN text = <<>>
    ELSE IF Head(pattern) = "%"
    THEN Like(Tail(pattern), text) \/ (text # <<>> /\ Like(pattern, Tail(text)))
    ELSE /\ text # <<>>
         /\ Head(pattern) = "_" \/ Fold(Head(pattern)) = Fold(Head(text))
         /\ Like(Tail(pattern), Tail(text))

\* searchPattern := "%" + keyword + "%"
SearchPattern(keyword) == <<"%">> \o Chars(keyword) \o <<"%">>

\* JOIN categories c ON i.category_id = c.id: the categories rows of an id
Joined(cats, cid) == {j \in 1..Len(cats) : cats[j].id = cid}

\* c.name of the joined categories row ("" for a row that joins none)
CategoryName(cats, cid) ==
    IF Joined(cats, cid) = {} THEN ""
    ELSE cats[CHOOSE j \in Joined(cats, cid) : TRUE].name

\* faulty variant: a scan that leaves Item.Category unset
ScanMut(cats, row) ==
    [ID |-> row.id, Name |-> row.name, Category |-> "",
     CategoryID |-> row.category_id, ImageName |-> row.image_name]

\* the Item a result row is scanned into, with the category name joined in
Scan(cats, row) ==
    [ID |-> row.id, Name |-> row.name,
     Category |-> CategoryName(cats, row.category_id),
     CategoryID |-> row.category_id, ImageName |-> row.image_name]

\* the rows.Next() loop: a slice that stays nil unless a row is appended
ScanAll(cats, rows) ==
    [isNil |-> rows = <<>>,
     elems |-> [i \in 1..Len(rows) |-> Scan(cats, rows[i])]]

\* faulty variant: a LEFT JOIN, which keeps the rows without a category
JoinItemsMut(its, cats) == its

\* FROM items i JOIN categories c ON i.category_id = c.id, in rowid order
JoinItems(its, cats) ==
    SelectSeq(its, LAMBDA r : Joined(cats, r.category_id) # {})

\* the query of List
ListQuery(its, cats) == ScanAll(cats, JoinItems(its, cats))

\* the query of Select: ... WHERE i.id = ?
SelectQuery(its, cats, id) ==
    SelectSeq(JoinItems(its, cats), LAMBDA r : r.id = id)

\* the query of SearchByKeyword: ... WHERE i.name LIKE ?
SearchQuery(its, cats, keyword) ==
    ScanAll(cats, SelectSeq(JoinItems(its, cats),
                LAMBDA r : Like(SearchPattern(keyword), Chars(r.name))))

\* the query of GetByID: SELECT id, name FROM categories WHERE id = ?
CategoryQuery(cats, id) == SelectSeq(cats, LAMBDA c : c.id = id)

(* ------------------------------- state --------------------------------- *)

VARIABLES
    categories,   \* the categories table, rows in insertion order
    catSeq,       \* sqlite_sequence entry of categories
    items,        \* the items table, rows in insertion order
    itemSeq,      \* sqlite_sequence entry of items
    files,        \* image directory: file name -> contents, NoFile when absent
    pc,           \* per caller: the statement it executes next
    op,           \* per caller: the operation it was asked to run
    ctx,          \* per caller: its context, "live" or "done" (cancelled)
    req,          \* per caller: the arguments of the call
    item,         \* per caller: the *Item handed to Insert
    ret,          \* per caller: the identity GetOrCreate returned
    err,          \* per caller: the error the call returned, "nil" if none
    out           \* per caller: what its read operation returned

vars == <<categories, catSeq, items, itemSeq, files, pc, op, ctx, req, item, ret, err, out>>

db == <<categories, catSeq, items, itemSeq>>

NoReq == [name |-> "", category |-> "", image |-> <<>>, id |-> 0, keyword |-> ""]

NoItem == [ID |-> 0, Name |-> "", CategoryID |-> 0, ImageName |-> 0]

\* a nil []*Item: the slice List and SearchByKeyword declare and never append to
NilSlice == [isNil |-> TRUE, elems |-> <<>>]

\* what a caller holds before its read returns: nil slice, nil *Item, nil *Category
NoOut == [items |-> NilSlice, item |-> <<>>, category |-> <<>>]

TypeOK ==
    /\ categories \in Seq([id : Nat, name : CategoryNames])
    /\ catSeq \in Nat
    /\ itemSeq \in Nat
    /\ pc \in [Callers -> {"idle", "query_category", "insert_category",
                           "open_image", "write_image", "insert_item", "query_items",
                           "done"}]
    /\ op \in [Callers -> {"none", "GetOrCreate", "Insert", "AddItem", "List",
                           "Select", "SearchByKeyword", "GetByID"}]
    /\ ctx \in [Callers -> {"live", "done"}]
    /\ ret \in [Callers -> Nat]

Init ==
    /\ categories = <<>>
    /\ catSeq = 0
    /\ items = <<>>
    /\ itemSeq = 0
    /\ files = [n \in FileNames |-> NoFile]
    /\ pc = [p \in Callers |-> "idle"]
    /\ op = [p \in Callers |-> "none"]
    /\ ctx = [p \in Callers |-> "live"]
    /\ req = [p \in Callers |-> NoReq]
    /\ item = [p \in Callers |-> NoItem]
    /\ ret = [p \in Callers |-> 0]
    /\ err = [p \in Callers |-> "nil"]
    /\ out = [p \in Callers |-> NoOut]

(* ------------------------ categoryRepository --------------------------- *)

\* a call of GetOrCreate(ctx, name) begins
GetOrCreateCall(p) ==
    /\ pc[p] = "idle"
    /\ \E name \in CategoryNames :
        req' = [req EXCEPT ![p] = [NoReq EXCEPT !.category = name]]
    /\ op' = [op EXCEPT ![p] = "GetOrCreate"]
    /\ pc' = [pc EXCEPT ![p] = "query_category"]
    /\ UNCHANGED <<db, files, ctx, item, ret, err, out>>

\* AddItem, after step (a): the resolved category goes into the item and the
\* image is stored next
AddItemCategoryResolved(p, id) ==
    /\ item' = [item EXCEPT ![p].CategoryID = id]
    /\ pc' = [pc EXCEPT ![p] = "open_image"]

\* GetOrCreate returns id and a nil error
CategoryResolved(p, id) ==
    /\ ret' = [ret EXCEPT ![p] = id]
    /\ err' = err
    /\ IF op[p] = "AddItem"
       THEN AddItemCategoryResolved(p, id)
       ELSE /\ item' = item
            /\ pc' = [pc EXCEPT ![p] = "done"]

\* the error GetOrCreate wraps when the UNIQUE constraint rejects its INSERT
ErrUnique == "failed to insert category: UNIQUE constraint failed"

\* the call returns the error e to its caller
Fail(p, e) ==
    /\ err' = [err EXCEPT ![p] = e]
    /\ pc' = [pc EXCEPT ![p] = "done"]

\* SELECT id FROM categories WHERE name = ?
QueryCategory(p) ==
    /\ pc[p] = "query_category"
    /\ op[p] \in {"GetOrCreate", "AddItem"}
    /\ IF ctx[p] = "done"
       THEN /\ Fail(p, "failed to query category: context canceled")
            /\ UNCHANGED <<item, ret>>
       ELSE IF SelectCategoryID(categories, req[p].category) # 0
       THEN CategoryResolved(p, SelectCategoryID(categories, req[p].category))
       ELSE /\ pc' = [pc EXCEPT ![p] = "insert_category"]
            /\ UNCHANGED <<item, ret, err>>
    /\ UNCHANGED <<db, files, op, ctx, req, out>>

\* faulty variant: INSERT OR REPLACE, which replaces the row of the name
InsertCategoryMut(p) ==
    /\ pc[p] = "insert_category"
    /\ IF ctx[p] = "done"
       THEN /\ Fail(p, "failed to insert category: context canceled")
            /\ UNCHANGED <<categories, catSeq, item, ret>>
       ELSE /\ categories' = Append(
                    SelectSeq(categories, LAMBDA c : c.name # req[p].category),
                    [id |-> NextRowID(catSeq), name |-> req[p].category])
            /\ catSeq' = NextRowID(catSeq)
            /\ CategoryResolved(p, NextRowID(catSeq))
    /\ UNCHANGED <<items, itemSeq, files, op, ctx, req, out>>

\* INSERT INTO categories (name) VALUES (?)
InsertCategory(p) ==
    /\ pc[p] = "insert_category"
    /\ IF ctx[p] = "done"
       THEN /\ Fail(p, "failed to insert category: context canceled")
            /\ UNCHANGED <<categories, catSeq, item, ret>>
       ELSE IF ~UniqueName(categories, req[p].category)
       THEN /\ Fail(p, ErrUnique)
            /\ UNCHANGED <<categories, catSeq, item, ret>>
       ELSE /\ categories' = Append(categories,
                    [id |-> NextRowID(catSeq), name |-> req[p].category])
            /\ catSeq' = NextRowID(catSeq)
            /\ CategoryResolved(p, NextRowID(catSeq))
    /\ UNCHANGED <<items, itemSeq, files, op, ctx, req, out>>

(* -------------------------- itemRepository ----------------------------- *)

\* a call of Insert(ctx, item) begins
InsertCall(p) ==
    /\ pc[p] = "idle"
    /\ \E name \in InsertNames, cid \in CategoryIDs, img \in FileNames :
        item' = [item EXCEPT ![p] = [ID |-> 0, Name |-> name,
                                     CategoryID |-> cid, ImageName |-> img]]
    /\ op' = [op EXCEPT ![p] = "Insert"]
    /\ pc' = [pc EXCEPT ![p] = "insert_item"]
    /\ UNCHANGED <<db, files, ctx, req, ret, err, out>>

\* faulty variant: Insert with the error of ExecContext dropped
InsertItemMut(p) ==
    /\ pc[p] = "insert_item"
    /\ IF ctx[p] = "done"
       THEN UNCHANGED <<items, itemSeq, item, err>>
       ELSE /\ items' = Append(items,
                    [id |-> NextRowID(itemSeq), name |-> item[p].Name,
                     category_id |-> item[p].CategoryID,
                     image_name |-> item[p].ImageName])
            /\ itemSeq' = NextRowID(itemSeq)
            /\ item' = [item EXCEPT ![p].ID = NextRowID(itemSeq)]
            /\ err' = err
    /\ pc' = [pc EXCEPT ![p] = "done"]
    /\ UNCHANGED <<categories, catSeq, files, op, ctx, req, ret, out>>

\* INSERT INTO items (name, category_id, image_name) VALUES (?, ?, ?)
InsertItem(p) ==
    /\ pc[p] = "insert_item"
    /\ IF ctx[p] = "done"
       THEN /\ Fail(p, "failed to insert item: context canceled")
            /\ UNCHANGED <<items, itemSeq, item>>
       ELSE /\ items' = Append(items,
                    [id |-> NextRowID(itemSeq), name |-> item[p].Name,
                     category_id |-> item[p].CategoryID,
                     image_name |-> item[p].ImageName])
            /\ itemSeq' = NextRowID(itemSeq)
            /\ item' = [item EXCEPT ![p].ID = NextRowID(itemSeq)]
            /\ pc' = [pc EXCEPT ![p] = "done"]
            /\ err' = err
    /\ UNCHANGED <<categories, catSeq, files, op, ctx, req, ret, out>>

(* --------------------------- read operations --------------------------- *)

\* ids Select and GetByID are called with
LookupIDs == {1, 2}

\* keywords SearchByKeyword is called with
Keywords == {"", "Phone", "phone", "_"}

\* a call of List(ctx) begins
ListCall(p) ==
    /\ pc[p] = "idle"
    /\ op' = [op EXCEPT ![p] = "List"]
    /\ pc' = [pc EXCEPT ![p] = "query_items"]
    /\ UNCHANGED <<db, files, ctx, req, item, ret, err, out>>

\* List: the query, the scan of its rows, and the return
List(p) ==
    /\ pc[p] = "query_items"
    /\ op[p] = "List"
    /\ IF ctx[p] = "done"
       THEN /\ Fail(p, "failed to query items: context canceled")
            /\ out' = out
       ELSE /\ out' = [out EXCEPT ![p].items = ListQuery(items, categories)]
            /\ pc' = [pc EXCEPT ![p] = "done"]
            /\ err' = err
    /\ UNCHANGED <<db, files, op, ctx, req, item, ret>>

\* a call of Select(ctx, id) begins
SelectCall(p) ==
    /\ pc[p] = "idle"
    /\ \E id \in LookupIDs : req' = [req EXCEPT ![p] = [NoReq EXCEPT !.id = id]]
    /\ op' = [op EXCEPT ![p] = "Select"]
    /\ pc' = [pc EXCEPT ![p] = "query_items"]
    /\ UNCHANGED <<db, files, ctx, item, ret, err, out>>

\* Select: the query and the scan of its one row
Select(p) ==
    /\ pc[p] = "query_items"
    /\ op[p] = "Select"
    /\ IF ctx[p] = "done"
       THEN /\ Fail(p, "failed to scan selected item: context canceled")
            /\ out' = out
       ELSE IF SelectQuery(items, categories, req[p].id) = <<>>
       THEN /\ Fail(p, "item not found")
            /\ out' = out
       ELSE /\ out' = [out EXCEPT ![p].item =
                    <<Scan(categories, SelectQuery(items, categories, req[p].id)[1])>>]
            /\ pc' = [pc EXCEPT ![p] = "done"]
            /\ err' = err
    /\ UNCHANGED <<db, files, op, ctx, req, item, ret>>

\* a call of SearchByKeyword(ctx, keyword) begins
SearchByKeywordCall(p) ==
    /\ pc[p] = "idle"
    /\ \E kw \in Keywords : req' = [req EXCEPT ![p] = [NoReq EXCEPT !.keyword = kw]]
    /\ op' = [op EXCEPT ![p] = "SearchByKeyword"]
    /\ pc' = [pc EXCEPT ![p] = "query_items"]
    /\ UNCHANGED <<db, files, ctx, item, ret, err, out>>

\* SearchByKeyword: the query, the scan of its rows, and the return
SearchByKeyword(p) ==
    /\ pc[p] = "query_items"
    /\ op[p] = "SearchByKeyword"
    /\ IF ctx[p] = "done"
       THEN /\ Fail(p, "failed to query items: context canceled")
            /\ out' = out
       ELSE /\ out' = [out EXCEPT ![p].items =
                    SearchQuery(items, categories, req[p].keyword)]
            /\ pc' = [pc EXCEPT ![p] = "done"]
            /\ err' = err
    /\ UNCHANGED <<db, files, op, ctx, req, item, ret>>

\* a call of GetByID(ctx, id) begins
GetByIDCall(p) ==
    /\ pc[p] = "idle"
    /\ \E id \in LookupIDs : req' = [req EXCEPT ![p] = [NoReq EXCEPT !.id = id]]
    /\ op' = [op EXCEPT ![p] = "GetByID"]
    /\ pc' = [pc EXCEPT ![p] = "query_category"]
    /\ UNCHANGED <<db, files, ctx, item, ret, err, out>>

\* GetByID: the query and the scan of its one row
GetByID(p) ==
    /\ pc[p] = "query_category"
    /\ op[p] = "GetByID"
    /\ IF ctx[p] = "done"
       THEN /\ Fail(p, "failed to scan category: context canceled")
            /\ out' = out
       ELSE IF CategoryQuery(categories, req[p].id) = <<>>
       THEN /\ Fail(p, "category not found")
            /\ out' = out
       ELSE /\ out' = [out EXCEPT ![p].category =
                    <<CategoryQuery(categories, req[p].id)[1]>>]
            /\ pc' = [pc EXCEPT ![p] = "done"]
            /\ err' = err
    /\ UNCHANGED <<db, files, op, ctx, req, item, ret>>

(* ----------------------------- StoreImage ------------------------------ *)

\* faulty variant: the error of os.WriteFile dropped
StoreImageErrMut(k, n) == "nil"

\* what StoreImage returns when os.WriteFile wrote k of the n bytes
StoreImageErr(k, n) == IF k = n THEN "nil" ELSE "failed to write image file"

\* AddItem, after step (b): the image name goes into the item and the row is
\* inserted next
AddItemImageStored(p) ==
    /\ item' = [item EXCEPT ![p].ImageName = ImageName(req[p].image)]
    /\ pc' = [pc EXCEPT ![p] = "insert_item"]
    /\ err' = err

\* os.WriteFile, first half: open the file with O_WRONLY|O_CREATE|O_TRUNC
OpenImage(p) ==
    /\ pc[p] = "open_image"
    /\ \/ /\ files' = [files EXCEPT ![ImageName(req[p].image)] = <<>>]
          /\ pc' = [pc EXCEPT ![p] = "write_image"]
          /\ err' = err
       \/ /\ Fail(p, "failed to write image file: open")
          /\ files' = files
    /\ UNCHANGED <<db, op, ctx, req, item, ret, out>>

\* os.WriteFile, second half: write the bytes; a failed write leaves a prefix
WriteImage(p) ==
    /\ pc[p] = "write_image"
    /\ \E k \in 0..Len(req[p].image) :
        /\ files' = [files EXCEPT ![ImageName(req[p].image)] =
                         WriteAt(@, req[p].image, k)]
        /\ IF StoreImageErr(k, Len(req[p].image)) = "nil"
           THEN AddItemImageStored(p)
           ELSE /\ Fail(p, StoreImageErr(k, Len(req[p].image)))
                /\ item' = item
    /\ UNCHANGED <<db, op, ctx, req, ret, out>>

(* ------------------------- Catalog Coordinator ------------------------- *)

\* faulty variant: AddItem without the check of the name
AddItemCallMut(p) ==
    /\ pc[p] = "idle"
    /\ \E name \in ItemNames, cat \in CategoryNames, img \in Images :
        /\ req' = [req EXCEPT ![p] = [NoReq EXCEPT !.name = name, !.category = cat,
                                               !.image = img]]
        /\ item' = [item EXCEPT ![p] = [NoItem EXCEPT !.Name = name]]
    /\ pc' = [pc EXCEPT ![p] = "query_category"]
    /\ op' = [op EXCEPT ![p] = "AddItem"]
    /\ UNCHANGED <<db, files, ctx, ret, err, out>>

\* AddItem(name, categoryName, imageBytes) begins; an empty name is rejected
AddItemCall(p) ==
    /\ pc[p] = "idle"
    /\ \E name \in ItemNames, cat \in CategoryNames, img \in Images :
        /\ req' = [req EXCEPT ![p] = [NoReq EXCEPT !.name = name, !.category = cat,
                                               !.image = img]]
        /\ IF name = ""
           THEN /\ Fail(p, "bad request: name is required")
                /\ item' = item
           ELSE /\ item' = [item EXCEPT ![p] = [NoItem EXCEPT !.Name = name]]
                /\ pc' = [pc EXCEPT ![p] = "query_category"]
                /\ err' = err
    /\ op' = [op EXCEPT ![p] = "AddItem"]
    /\ UNCHANGED <<db, files, ctx, ret, out>>

(* ------------------------------ callers -------------------------------- *)

\* the caller cancels the context of its call in progress
Cancel(p) ==
    /\ pc[p] \notin {"idle", "done"}
    /\ ctx[p] = "live"
    /\ ctx' = [ctx EXCEPT ![p] = "done"]
    /\ UNCHANGED <<db, files, pc, op, req, item, ret, err, out>>

Next ==
    \E p \in Callers :
        \/ GetOrCreateCall(p)
        \/ QueryCategory(p)
        \/ InsertCategory(p)
        \/ InsertCall(p)
        \/ InsertItem(p)
        \/ AddItemCall(p)
        \/ OpenImage(p)
        \/ WriteImage(p)
        \/ ListCall(p)
        \/ List(p)
        \/ SelectCall(p)
        \/ Select(p)
        \/ SearchByKeywordCall(p)
        \/ SearchByKeyword(p)
        \/ GetByIDCall(p)
        \/ GetByID(p)
        \/ Cancel(p)

Spec == Init /\ [][Next]_vars

(* ---------------------- read operations on a store --------------------- *)

\* item names and category ids of the rows of such a store (id 3 is dangling)
StoredNames == {"jacket", "iPhone"}

StoredCategoryIDs == 1..3

\* the caller that reads
Reader == 1

\* a store left by earlier calls: categories of distinct names and up to
\* MaxRows items, ids in insertion order, and no call in progress
InitRead ==
    /\ \E m \in 0..Cardinality(CategoryNames) : \E g \in [1..m -> CategoryNames] :
        /\ \A i, j \in 1..m : g[i] = g[j] => i = j
        /\ categories = [i \in 1..m |-> [id |-> i, name |-> g[i]]]
    /\ catSeq = Len(categories)
    /\ \E n \in 0..MaxRows : \E f \in [1..n -> StoredNames \X StoredCategoryIDs] :
        items = [i \in 1..n |->
                    [id |-> i, name |-> f[i][1], category_id |-> f[i][2],
                     image_name |-> ImageName(<<3>>)]]
    /\ itemSeq = Len(items)
    /\ files = [n \in FileNames |-> NoFile]
    /\ pc = [p \in Callers |-> "idle"]
    /\ op = [p \in Callers |-> "none"]
    /\ ctx = [p \in Callers |-> "live"]
    /\ req = [p \in Callers |-> NoReq]
    /\ item = [p \in Callers |-> NoItem]
    /\ ret = [p \in Callers |-> 0]
    /\ err = [p \in Callers |-> "nil"]
    /\ out = [p \in Callers |-> NoOut]

NextRead ==
    \/ ListCall(Reader)
    \/ List(Reader)
    \/ SelectCall(Reader)
    \/ Select(Reader)
    \/ SearchByKeywordCall(Reader)
    \/ SearchByKeyword(Reader)
    \/ GetByIDCall(Reader)
    \/ GetByID(Reader)
    \/ Cancel(Reader)

SpecRead == InitRead /\ [][NextRead]_vars

(* ------------------------------ properties ----------------------------- *)

\* GetOrCreate calls that have returned and whose context was never cancelled
Returned(name) ==
    {p \in Callers : /\ op[p] = "GetOrCreate" /\ pc[p] = "done"
                     /\ ctx[p] = "live" /\ req[p].category = name}

\* C1: GetOrCreate calls for the same name, run concurrently on a store that
\* does not have the name yet, all return the same identity without error,
\* and exactly one row with the name exists afterwards.
C1_ConcurrentCallsConverge ==
    \A name \in CategoryNames :
        Returned(name) # {} =>
            /\ \A p, q \in Returned(name) :
                  err[p] = "nil" /\ ret[p] # 0 /\ ret[p] = ret[q]
            /\ Cardinality(RowsNamed(categories, name)) = 1

\* C2: no call of GetOrCreate (alone or as step (a) of AddItem) returns the
\* error of the UNIQUE constraint on categories.name.
C2_UniqueErrorNeverSurfaces ==
    \A p \in Callers : err[p] # ErrUnique

\* C3: no two rows of the categories table have the same name.
C3_CategoryNamesUnique ==
    \A i, j \in 1..Len(categories) :
        categories[i].name = categories[j].name => i = j

\* C3 witness: an INSERT of a name the table already holds was attempted and
\* rejected.
C3_Witness ==
    \E p \in Callers :
        err[p] = ErrUnique /\ RowsNamed(categories, req[p].category) # {}

\* C4: the image named by every item row that AddItem inserted holds the
\* complete bytes of the upload, in every state from the insert on.
C4_ItemImagesComplete ==
    \A p \in Callers :
        (op[p] = "AddItem" /\ item[p].ID # 0) =>
            files[item[p].ImageName] = req[p].image

\* C5: the category_id of every item row is the id of a categories row.
C5_CategoryIdsResolve ==
    \A i \in 1..Len(items) :
        \E j \in 1..Len(categories) : categories[j].id = items[i].category_id

\* the lookup of caller p, with a live context, runs in this step
LooksUp(p) ==
    /\ op[p] = "GetOrCreate"
    /\ pc[p] = "query_category"
    /\ pc'[p] # "query_category"
    /\ ctx[p] = "live"

\* C6: a GetOrCreate whose lookup runs when a row with the name exists returns
\* the id of that row and adds no row; rows keep their id and name, so every
\* such call returns the same identity and the name keeps exactly one row.
C6_LaterCallsReturnSameIdentity ==
    [][/\ \A p \in Callers : \A i \in 1..Len(categories) :
            (LooksUp(p) /\ categories[i].name = req[p].category) =>
                /\ pc'[p] = "done"
                /\ err'[p] = "nil"
                /\ ret'[p] = categories[i].id
                /\ categories' = categories
                /\ Cardinality(RowsNamed(categories', req[p].category)) = 1
       /\ \A i \in 1..Len(categories) :
            Len(categories') >= i /\ categories'[i] = categories[i]
      ]_vars

\* C6 witness: two calls for one name have returned, the second after the
\* row existed, with the same identity and one row.
C6_Witness ==
    \E p, q \in Callers :
        /\ p # q
        /\ op[p] = "GetOrCreate" /\ op[q] = "GetOrCreate"
        /\ pc[p] = "done" /\ pc[q] = "done"
        /\ req[p].category = req[q].category
        /\ err[p] = "nil" /\ err[q] = "nil"
        /\ ret[p] = ret[q] /\ ret[p] # 0
        /\ Cardinality(RowsNamed(categories, req[p].category)) = 1

\* the steps of AddItem before the row insert: (a) GetOrCreate, (b) StoreImage
BeforeInsert == {"query_category", "insert_category", "open_image", "write_image"}

\* C7: when step (a) or (b) of AddItem fails, AddItem returns the error and
\* has inserted no item row; a call whose own write left the image
\* incomplete fails and inserts no row.
C7_NoRowAfterEarlyFailure ==
    [][\A p \in Callers : op[p] = "AddItem" =>
          /\ (pc[p] \in BeforeInsert /\ err'[p] # "nil") =>
                 /\ pc'[p] = "done"
                 /\ items' = items
                 /\ item'[p].ID = 0
          /\ (/\ pc[p] = "write_image" /\ pc'[p] # "write_image"
              /\ files'[ImageName(req[p].image)] # req[p].image) =>
                 /\ err'[p] # "nil"
                 /\ pc'[p] = "done"
                 /\ items' = items
          /\ (pc[p] = "done" /\ err[p] # "nil") =>
                 (pc'[p] = "done" /\ err'[p] = err[p] /\ item'[p].ID = 0)
      ]_vars

\* C7 witness: one AddItem failed in its category step, another in its image
\* write, and neither has a row.
C7_Witness ==
    \E p, q \in Callers :
        /\ op[p] = "AddItem" /\ op[q] = "AddItem"
        /\ pc[p] = "done" /\ pc[q] = "done"
        /\ err[p] = ErrUnique
        /\ err[q] = "failed to write image file"
        /\ files[ImageName(req[q].image)] # req[q].image
        /\ item[p].ID = 0 /\ item[q].ID = 0
        /\ items = <<>>

\* C8: AddItem with an empty item name fails at once and leaves the
\* categories, the items and the image files as they were.
C8_EmptyNameRejected ==
    [][\A p \in Callers :
          (pc[p] = "idle" /\ op'[p] = "AddItem" /\ req'[p].name = "") =>
              /\ pc'[p] = "done"
              /\ err'[p] # "nil"
              /\ categories' = categories /\ catSeq' = catSeq
              /\ items' = items /\ itemSeq' = itemSeq
              /\ files' = files
      ]_vars

\* C8 witness: an AddItem with an empty name was rejected while the stores
\* held a category, an item and an image.
C8_Witness ==
    \E p \in Callers :
        /\ op[p] = "AddItem" /\ req[p].name = "" /\ pc[p] = "done"
        /\ err[p] = "bad request: name is required"
        /\ Len(categories) = 1 /\ Len(items) = 1
        /\ \E n \in FileNames : files[n] # NoFile

\* C9: when the row insert of AddItem fails (its context is done), AddItem
\* returns an error, no row is inserted, and the image file it stored stays.
C9_InsertFailureLeavesImage ==
    [][\A p \in Callers :
          (/\ op[p] = "AddItem" /\ pc[p] = "insert_item"
           /\ pc'[p] # "insert_item" /\ ctx[p] = "done") =>
              /\ pc'[p] = "done"
              /\ err'[p] # "nil"
              /\ items' = items /\ itemSeq' = itemSeq
              /\ item'[p].ID = 0
              /\ files' = files
              /\ files[item[p].ImageName] # NoFile
      ]_vars

\* C9 witness: an AddItem has failed in its row insert; its image is stored
\* completely and no item row names it.
C9_Witness ==
    \E p \in Callers :
        /\ op[p] = "AddItem" /\ pc[p] = "done"
        /\ err[p] = "failed to insert item: context canceled"
        /\ files[item[p].ImageName] = req[p].image
        /\ \A i \in 1..Len(items) : items[i].image_name # item[p].ImageName

\* C10: the ids of the item rows increase strictly in insertion order, and
\* the id handed to each successful Insert is the id of one row and of no
\* other call.
C10_ItemIdsIncrease ==
    /\ \A i, j \in 1..Len(items) : i < j => items[i].id < items[j].id
    /\ \A p \in Callers : item[p].ID # 0 =>
          /\ \E i \in 1..Len(items) : items[i].id = item[p].ID
          /\ \A q \in Callers : item[q].ID = item[p].ID => q = p

\* C10 witness: two inserts have succeeded.
C10_Witness ==
    /\ Len(items) = 2
    /\ \E p, q \in Callers : p # q /\ item[p].ID # 0 /\ item[q].ID # 0

\* caller p's read operation o runs its query in this step, context live
Reads(p, o) ==
    /\ op[p] = o
    /\ pc[p] \in {"query_items", "query_category"}
    /\ pc'[p] = "done"
    /\ ctx[p] = "live"

\* the rows of the items table with the given id
RowsWithID(id) == {i \in 1..Len(items) : items[i].id = id}

\* C11: Select(id) fails with "item not found" exactly when no item row has
\* the id, and for an id some row has it returns that row's fields, with the
\* name of the row's category.
C11_SelectFindsEveryRow ==
    [][\A p \in Callers : Reads(p, "Select") =>
          /\ err'[p] = "item not found" <=> RowsWithID(req[p].id) = {}
          /\ \A i \in RowsWithID(req[p].id) :
                /\ err'[p] = "nil"
                /\ Len(out'[p].item) = 1
                /\ out'[p].item[1].ID = items[i].id
                /\ out'[p].item[1].Name = items[i].name
                /\ out'[p].item[1].CategoryID = items[i].category_id
                /\ out'[p].item[1].ImageName = items[i].image_name
                /\ \A j \in 1..Len(categories) :
                      categories[j].id = items[i].category_id =>
                          out'[p].item[1].Category = categories[j].name
      ]_vars

\* the Item a successful AddItem of caller p returns
AddedItem(p) ==
    [ID |-> item[p].ID, Name |-> req[p].name, Category |-> req[p].category,
     CategoryID |-> item[p].CategoryID, ImageName |-> ImageName(req[p].image)]

\* caller p's AddItem has returned without error
Added(p) == op[p] = "AddItem" /\ pc[p] = "done" /\ err[p] = "nil"

\* C12: the item a successful AddItem returns has a non-zero id, the id of a
\* category of the requested name and an image name with a file in the image
\* directory, and a Select of its id, at any time after, returns an equal
\* item.
C12_SelectReturnsAddedItem ==
    [][\A p \in Callers :
          /\ Added(p)' =>
                /\ item'[p].ID # 0
                /\ \E j \in 1..Len(categories') :
                      /\ categories'[j].id = item'[p].CategoryID
                      /\ categories'[j].name = req'[p].category
                /\ item'[p].ImageName = ImageName(req'[p].image)
                /\ files'[item'[p].ImageName] # NoFile
          /\ \A q \in Callers :
                (Added(p) /\ Reads(q, "Select") /\ req[q].id = item[p].ID) =>
                    (err'[q] = "nil" /\ out'[q].item = <<AddedItem(p)>>)
      ]_vars

\* C12 witness: an AddItem for "phone" succeeded and a later Select of its id
\* returned the item.
C12_Witness ==
    \E p, q \in Callers :
        /\ Added(p) /\ req[p].category = "phone"
        /\ op[q] = "Select" /\ pc[q] = "done" /\ err[q] = "nil"
        /\ req[q].id = item[p].ID
        /\ out[q].item = <<AddedItem(p)>>

\* kw occurs in text as a run of consecutive, equal characters
Contains(text, kw) ==
    \E i \in 0..(Len(text) - Len(kw)) : SubSeq(text, i + 1, i + Len(kw)) = kw

\* the ids of a sequence of rows or of scanned items, in order
RowIDs(rows) == [i \in 1..Len(rows) |-> rows[i].id]

ItemIDs(elems) == [i \in 1..Len(elems) |-> elems[i].ID]

\* every item row has a categories row for its category_id
AllJoin == \A i \in 1..Len(items) : Joined(categories, items[i].category_id) # {}

\* C13: SearchByKeyword(keyword) returns, without error, exactly the item
\* rows whose name contains keyword as a literal substring: all of them for
\* the empty keyword, none when no name contains it. Stated for the stores
\* in which every item row has its category, where no row is lost to the join.
C13_SearchIsLiteralSubstring ==
    [][\A p \in Callers : (Reads(p, "SearchByKeyword") /\ AllJoin) =>
          /\ err'[p] = "nil"
          /\ ItemIDs(out'[p].items.elems) =
                RowIDs(SelectSeq(items, LAMBDA r :
                    Contains(Chars(r.name), Chars(req[p].keyword))))
      ]_vars

\* C14: List() returns one item per row of the items table, in insertion
\* order, each with the name of the category its category_id is the id of.
C14_ListReturnsEveryRow ==
    [][\A p \in Callers : Reads(p, "List") =>
          /\ err'[p] = "nil"
          /\ ItemIDs(out'[p].items.elems) = RowIDs(items)
          /\ \A i \in 1..Len(out'[p].items.elems) :
                \E j \in 1..Len(categories) :
                    /\ categories[j].id = out'[p].items.elems[i].CategoryID
                    /\ categories[j].name = out'[p].items.elems[i].Category
      ]_vars

\* C15: the slice a successful List() returns is never nil, also when there
\* is no item.
C15_ListNeverNil ==
    [][\A p \in Callers : Reads(p, "List") => ~out'[p].items.isNil]_vars

\* C16: a name in the image directory resolves to nothing or to the complete
\* bytes of the image of that name, never to a part of them, whether a write
\* is under way, has failed or has finished.
C16_NoPartialImage ==
    \A b \in Images : files[ImageName(b)] \in {NoFile, b}

\* callers whose AddItem has stored the bytes b without error
Stored(b) ==
    {p \in Callers : op[p] = "AddItem" /\ req[p].image = b /\ item[p].ImageName # 0}

\* callers whose write of the bytes b is under way or has failed
Writing(b) ==
    {p \in Callers : /\ op[p] = "AddItem" /\ req[p].image = b
                     /\ \/ pc[p] = "write_image"
                        \/ pc[p] = "done" /\ err[p] = "failed to write image file"}

\* C17: when the same bytes were stored once or several times, one after the
\* other or concurrently, every store got the same name, and one file, of
\* that name, holds exactly the bytes.
C17_SameBytesOneFile ==
    \A b \in Images :
        (Stored(b) # {} /\ Writing(b) = {}) =>
            /\ \A p, q \in Stored(b) : item[p].ImageName = item[q].ImageName
            /\ \A p \in Stored(b) : files[item[p].ImageName] = b
            /\ Cardinality({n \in FileNames : files[n] = b}) = 1

\* C17 witness: two callers have stored the same bytes, and the file of their
\* common name holds them.
C17_Witness ==
    \E p, q \in Callers :
        /\ p # q
        /\ req[p].image = req[q].image
        /\ {p, q} \subseteq Stored(req[p].image)
        /\ Writing(req[p].image) = {}
        /\ files[item[p].ImageName] = req[p].image

\* C18: every step of every operation leaves each existing row of categories
\* and of items in its place with its fields unchanged.
C18_RowsNeverChange ==
    [][/\ \A i \in 1..Len(categories) :
            Len(categories') >= i /\ categories'[i] = categories[i]
       /\ \A i \in 1..Len(items) :
            Len(items') >= i /\ items'[i] = items[i]
      ]_vars

\* C18 witness: an Insert and a GetOrCreate have both returned, in either
\* order, and the row each of them made is in its table as it was inserted.
C18_Witness ==
    \E p, q \in Callers :
        /\ op[p] = "Insert" /\ pc[p] = "done" /\ err[p] = "nil"
        /\ op[q] = "GetOrCreate" /\ pc[q] = "done" /\ err[q] = "nil"
        /\ items = <<[id |-> item[p].ID, name |-> item[p].Name,
                      category_id |-> item[p].CategoryID,
                      image_name |-> item[p].ImageName]>>
        /\ categories = <<[id |-> ret[q], name |-> req[q].category]>>

\* C19: the identity a GetOrCreate(name) returned without error is the id of
\* a categories row whose name is name.
C19_ReturnedIdentityNamesRow ==
    \A p \in Callers :
        (op[p] = "GetOrCreate" /\ pc[p] = "done" /\ err[p] = "nil") =>
            \E i \in 1..Len(categories) :
                categories[i].id = ret[p] /\ categories[i].name = req[p].category

\* C19 witness: calls for two names have returned, each the id of its row.
C19_Witness ==
    \E p, q \in Callers :
        /\ op[p] = "GetOrCreate" /\ op[q] = "GetOrCreate"
        /\ pc[p] = "done" /\ pc[q] = "done"
        /\ err[p] = "nil" /\ err[q] = "nil"
        /\ req[p].category # req[q].category
        /\ ret[p] # 0 /\ ret[q] # 0 /\ ret[p] # ret[q]

\* the item rows whose category_id is the id of a categories row
Visible ==
    SelectSeq(items, LAMBDA r :
        \E j \in 1..Len(categories) : categories[j].id = r.category_id)

VisibleIDs == {Visible[i].id : i \in 1..Len(Visible)}

\* C20: List returns the visible rows and no other, SearchByKeyword returns
\* visible rows only and all of them for the empty keyword, and Select finds
\* an id exactly when a visible row has it: a row without a category is in
\* none of the three results.
C20_ReadsAgreeOnVisibleRows ==
    [][\A p \in Callers :
          /\ Reads(p, "List") =>
                ItemIDs(out'[p].items.elems) = RowIDs(Visible)
          /\ Reads(p, "SearchByKeyword") =>
                /\ \A i \in 1..Len(out'[p].items.elems) :
                      out'[p].items.elems[i].ID \in VisibleIDs
                /\ req[p].keyword = "" =>
                      ItemIDs(out'[p].items.elems) = RowIDs(Visible)
          /\ Reads(p, "Select") =>
                /\ err'[p] = "item not found" <=> req[p].id \notin VisibleIDs
                /\ err'[p] = "nil" <=> req[p].id \in VisibleIDs
      ]_vars

\* C20 witness: Select has reported "item not found" for the id of a row
\* that is in the table without a category, beside a visible row.
C20_Witness ==
    \E p \in Callers :
        /\ op[p] = "Select" /\ pc[p] = "done" /\ err[p] = "item not found"
        /\ RowsWithID(req[p].id) # {}
        /\ req[p].id \notin VisibleIDs
        /\ VisibleIDs # {}

====
